---- MODULE Spec2Model ----
(***************************************************************************)
(* A model of package linter of skeema: OptionsForDir (config.go), and    *)
(* Annotation.MessageWithLocation, Result.Merge, BadConfigResult and      *)
(* LintDir (linter.go).  Go strings are TLA+ strings, fmt.Sprintf is      *)
(* string concatenation, slices are sequences and maps are functions.     *)
(***************************************************************************)
EXTENDS Integers, Sequences, FiniteSets, Bags, TLC

VARIABLES
    pc,              \* position of the operation under way
    dir,             \* LintDir / OptionsForDir: the *fs.Dir argument
    result,          \* LintDir: the *Result being built
    ignoreTable,     \* LintDir: local ignoreTable (*regexp.Regexp or nil)
    ignoreSchema,    \* LintDir: local ignoreSchema
    opts,            \* LintDir: local opts
    lsIdx,           \* LintDir: index of the range loop over dir.LogicalSchemas
    schema,          \* LintDir: local schema of the current iteration
    statementErrors, \* LintDir: statement errors not yet ranged over
    problemsLeft,    \* LintDir: keys of opts.ProblemSeverity not yet ranged over
    objectsLeft,     \* LintDir: keys of schema.ObjectDefinitions() not yet ranged over
    execCalls,       \* the calls of workspace.ExecLogicalSchema made so far
    ret,             \* OptionsForDir: the returned (Options, error)
    a,               \* MessageWithLocation: the receiver
    rendered,        \* MessageWithLocation: the returned string
    r,               \* Merge: the receiver
    other,           \* Merge: the argument
    merged           \* Merge: the arguments of the Merge calls made so far

vars == <<pc, dir, result, ignoreTable, ignoreSchema, opts, lsIdx, schema,
          statementErrors, problemsLeft, objectsLeft, execCalls, ret, a,
          rendered, r, other, merged>>

lintVars == <<result, ignoreTable, ignoreSchema, opts, lsIdx, schema,
              statementErrors, problemsLeft, objectsLeft, execCalls>>

----------------------------------------------------------------------------
(* Bounds of the model *)

MaxWarnings == 3    \* longest warnings list explored for OptionsForDir
MaxErrors == 1      \* longest errors list explored for OptionsForDir
MaxLine == 5        \* largest Statement.LineNo
MaxCol == 3         \* largest Statement.CharNo
MaxOffset == 2      \* largest Annotation.LineOffset
MaxMerges == 2      \* number of Merge calls on one receiver
MaxSchemas == 2     \* number of logical schemas of a directory

----------------------------------------------------------------------------
(* Strings *)

HasPrefix(s, p) == Len(s) >= Len(p) /\ SubSeq(s, 1, Len(p)) = p

Upper == "ABCDEFGHIJKLMNOPQRSTUVWXYZ"
Lower == "abcdefghijklmnopqrstuvwxyz"

UpperChars == {SubSeq(Upper, i, i) : i \in 1..Len(Upper)}

LowerOf ==
    [c \in UpperChars |->
        LET i == CHOOSE j \in 1..Len(Upper) : SubSeq(Upper, j, j) = c
        IN  SubSeq(Lower, i, i)]

ToLowerChar(c) == IF c \in UpperChars THEN LowerOf[c] ELSE c

RECURSIVE ToLower(_)
ToLower(s) ==
    IF s = "" THEN ""
    ELSE ToLowerChar(SubSeq(s, 1, 1)) \o ToLower(SubSeq(s, 2, Len(s)))

RECURSIVE Join(_, _)
Join(elems, sep) ==
    IF elems = <<>> THEN ""
    ELSE IF Len(elems) = 1 THEN elems[1]
    ELSE elems[1] \o sep \o Join(Tail(elems), sep)

RECURSIVE TrimRight(_, _)
TrimRight(s, cutset) ==
    IF s # "" /\ SubSeq(s, Len(s), Len(s)) \in cutset
    THEN TrimRight(SubSeq(s, 1, Len(s) - 1), cutset)
    ELSE s

TrimSuffix(s, suffix) ==
    IF Len(s) >= Len(suffix) /\ SubSeq(s, Len(s) - Len(suffix) + 1, Len(s)) = suffix
    THEN SubSeq(s, 1, Len(s) - Len(suffix))
    ELSE s

SeqsUpTo(S, n) == UNION {[1..k -> S] : k \in 0..n}

----------------------------------------------------------------------------
(* Go error values: nil, a ConfigError, or an error of another type *)

NilError == [type |-> "nil", msg |-> ""]
ConfigError(msg) == [type |-> "ConfigError", msg |-> msg]
Errorf(msg) == [type |-> "*errors.errorString", msg |-> msg]

SeverityError == "error"
SeverityWarning == "warning"

----------------------------------------------------------------------------
(* Annotation.MessageWithLocation *)

Statement(file, lineNo, charNo, text) ==
    [File |-> file, LineNo |-> lineNo, CharNo |-> charNo, Text |-> text]

Annotation(stmt, lineOffset, summary, message) ==
    [Statement |-> stmt, LineOffset |-> lineOffset, Summary |-> summary,
     Message |-> message]

MessageWithLocation_NoOffsetCheck(an) ==
    IF an.Statement.File = "" \/ an.Statement.LineNo = 0
    THEN an.Message \o " [Full SQL: " \o an.Statement.Text \o "]"
    ELSE IF an.Statement.CharNo > 1
    THEN an.Statement.File \o ":" \o ToString(an.Statement.LineNo) \o ":"
         \o ToString(an.Statement.CharNo) \o ": " \o an.Message
    ELSE an.Statement.File \o ":"
         \o ToString(an.Statement.LineNo + an.LineOffset) \o ": " \o an.Message

MessageWithLocation(an) ==
    IF an.Statement.File = "" \/ an.Statement.LineNo = 0
    THEN an.Message \o " [Full SQL: " \o an.Statement.Text \o "]"
    ELSE IF an.LineOffset = 0 /\ an.Statement.CharNo > 1
    THEN an.Statement.File \o ":" \o ToString(an.Statement.LineNo) \o ":"
         \o ToString(an.Statement.CharNo) \o ": " \o an.Message
    ELSE an.Statement.File \o ":"
         \o ToString(an.Statement.LineNo + an.LineOffset) \o ": " \o an.Message

----------------------------------------------------------------------------
(* Result, Result.Merge, BadConfigResult *)

EmptyResult ==
    [Errors |-> <<>>, Warnings |-> <<>>, FormatNotices |-> <<>>,
     DebugLogs |-> <<>>, Exceptions |-> <<>>]

Merge_WarningsIntoErrors(rcv, oth) ==
    [Errors        |-> rcv.Errors \o oth.Errors \o oth.Warnings,
     Warnings      |-> rcv.Warnings,
     FormatNotices |-> rcv.FormatNotices \o oth.FormatNotices,
     DebugLogs     |-> rcv.DebugLogs \o oth.DebugLogs,
     Exceptions    |-> rcv.Exceptions \o oth.Exceptions]

Merge(rcv, oth) ==
    [Errors        |-> rcv.Errors \o oth.Errors,
     Warnings      |-> rcv.Warnings \o oth.Warnings,
     FormatNotices |-> rcv.FormatNotices \o oth.FormatNotices,
     DebugLogs     |-> rcv.DebugLogs \o oth.DebugLogs,
     Exceptions    |-> rcv.Exceptions \o oth.Exceptions]

BadConfigResult_NoConversion(err) ==
    [EmptyResult EXCEPT !.Exceptions = <<err>>]

BadConfigResult(err) ==
    LET e == IF err.type # "ConfigError" THEN ConfigError(err.msg) ELSE err
    IN  [EmptyResult EXCEPT !.Exceptions = <<e>>]

----------------------------------------------------------------------------
(* The directory configuration (mybase.Config as seen through fs.Dir)      *)

OptionNames ==
    {"warnings", "errors", "allow-charset", "allow-engine", "ignore-table",
     "ignore-schema", "schema"}

RECURSIVE SplitOn(_, _)
SplitOn(s, delimiter) ==
    IF \E i \in 1..Len(s) : SubSeq(s, i, i) = delimiter
    THEN LET i == CHOOSE j \in 1..Len(s) :
                      /\ SubSeq(s, j, j) = delimiter
                      /\ \A k \in 1..(j - 1) : SubSeq(s, k, k) # delimiter
         IN  <<SubSeq(s, 1, i - 1)>> \o SplitOn(SubSeq(s, i + 1, Len(s)), delimiter)
    ELSE <<s>>

RECURSIVE TrimLeft(_, _)
TrimLeft(s, cutset) ==
    IF s # "" /\ SubSeq(s, 1, 1) \in cutset
    THEN TrimLeft(SubSeq(s, 2, Len(s)), cutset)
    ELSE s

WhiteSpace == {" ", "\n", "\t", "\r"}

TrimSpace(s) == TrimLeft(TrimRight(s, WhiteSpace), WhiteSpace)

\* Config.GetSlice(name, ',', true): the value split on the delimiter, each
\* token trimmed, empty tokens left out
GetSlice(config, name, delimiter) ==
    LET parts   == SplitOn(config[name], delimiter)
        trimmed == [i \in 1..Len(parts) |-> TrimSpace(parts[i])]
    IN  SelectSeq(trimmed, LAMBDA t : t # "")

\* Config.GetRegexp(name): (nil, nil) for an unset option, (nil, err) for a
\* pattern that does not compile, (re, nil) otherwise.  The patterns of the
\* model are "^" followed by a literal, and the unbalanced "(".
NilRegexp == [set |-> FALSE, pattern |-> ""]

GetRegexp(config, name) ==
    LET value == config[name]
    IN  IF value = "" THEN [re |-> NilRegexp, err |-> NilError]
        ELSE IF value = "("
        THEN [re  |-> NilRegexp,
              err |-> Errorf("Invalid regexp for " \o name \o ": " \o value)]
        ELSE [re |-> [set |-> TRUE, pattern |-> value], err |-> NilError]

\* (*regexp.Regexp).MatchString for the patterns "^literal"
MatchString(re, s) == HasPrefix(s, SubSeq(re.pattern, 2, Len(re.pattern)))

----------------------------------------------------------------------------
(* The problem registry: the names the linter knows                       *)

allProblemNames == <<"bad-charset", "bad-engine", "no-pk">>

problemExists(name) == \E i \in 1..Len(allProblemNames) : allProblemNames[i] = name

----------------------------------------------------------------------------
(* OptionsForDir *)

NoSeverity == [name \in {} |-> SeverityWarning]

MapSet(m, key, value) ==
    [k \in DOMAIN m \cup {key} |-> IF k = key THEN value ELSE m[k]]

RECURSIVE SetSeverity_NoLower(_, _, _)
SetSeverity_NoLower(m, vals, severity) ==
    IF vals = <<>> THEN [m |-> m, unknown |-> FALSE]
    ELSE LET val == Head(vals)
         IN  IF ~problemExists(val) THEN [m |-> m, unknown |-> TRUE]
             ELSE SetSeverity_NoLower(MapSet(m, val, severity), Tail(vals), severity)

\* one of the two range loops of OptionsForDir over a list of names: the map
\* after the loop, and whether the loop returned on an unknown name
RECURSIVE SetSeverity(_, _, _)
SetSeverity(m, vals, severity) ==
    IF vals = <<>> THEN [m |-> m, unknown |-> FALSE]
    ELSE LET val == ToLower(Head(vals))
         IN  IF ~problemExists(val) THEN [m |-> m, unknown |-> TRUE]
             ELSE SetSeverity(MapSet(m, val, severity), Tail(vals), severity)

OptionsForDir_ErrorsFirst(d) ==
    LET base == [ProblemSeverity |-> NoSeverity,
                 AllowedCharSets |-> GetSlice(d.Config, "allow-charset", ","),
                 AllowedEngines  |-> GetSlice(d.Config, "allow-engine", ",")]
        allAllowed == Join(allProblemNames, ", ")
        e == SetSeverity(NoSeverity, GetSlice(d.Config, "errors", ","), SeverityError)
        w == SetSeverity(e.m, GetSlice(d.Config, "warnings", ","), SeverityWarning)
    IN  IF e.unknown
        THEN [opts |-> [base EXCEPT !.ProblemSeverity = e.m],
              err  |-> ConfigError("Option errors must be a comma-separated list including these values: " \o allAllowed)]
        ELSE IF w.unknown
        THEN [opts |-> [base EXCEPT !.ProblemSeverity = w.m],
              err  |-> ConfigError("Option warnings must be a comma-separated list including these values: " \o allAllowed)]
        ELSE [opts |-> [base EXCEPT !.ProblemSeverity = w.m], err |-> NilError]

OptionsForDir(d) ==
    LET base == [ProblemSeverity |-> NoSeverity,
                 AllowedCharSets |-> GetSlice(d.Config, "allow-charset", ","),
                 AllowedEngines  |-> GetSlice(d.Config, "allow-engine", ",")]
        allAllowed == Join(allProblemNames, ", ")
        w == SetSeverity(NoSeverity, GetSlice(d.Config, "warnings", ","), SeverityWarning)
        e == SetSeverity(w.m, GetSlice(d.Config, "errors", ","), SeverityError)
    IN  IF w.unknown
        THEN [opts |-> [base EXCEPT !.ProblemSeverity = w.m],
              err  |-> ConfigError("Option warnings must be a comma-separated list including these values: " \o allAllowed)]
        ELSE IF e.unknown
        THEN [opts |-> [base EXCEPT !.ProblemSeverity = e.m],
              err  |-> ConfigError("Option errors must be a comma-separated list including these values: " \o allAllowed)]
        ELSE [opts |-> [base EXCEPT !.ProblemSeverity = e.m], err |-> NilError]

----------------------------------------------------------------------------
(* Values of the variables an operation does not use *)

NoDir == [Config |-> [o \in OptionNames |-> ""], LogicalSchemas |-> <<>>, RelPath |-> ""]
NoOptions == [ProblemSeverity |-> NoSeverity, AllowedCharSets |-> <<>>, AllowedEngines |-> <<>>]
NoSchema == [Definitions |-> [k \in {} |-> ""], Tables |-> <<>>]
NoReturn == [opts |-> NoOptions, err |-> NilError]
NoAnnotation == Annotation(Statement("", 0, 0, ""), 0, "", "")

LintIdle ==
    /\ result = EmptyResult
    /\ ignoreTable = NilRegexp
    /\ ignoreSchema = NilRegexp
    /\ opts = NoOptions
    /\ lsIdx = 0
    /\ schema = NoSchema
    /\ statementErrors = <<>>
    /\ problemsLeft = {}
    /\ objectsLeft = {}
    /\ execCalls = <<>>

MessageIdle == a = NoAnnotation /\ rendered = ""
MergeIdle == r = EmptyResult /\ other = EmptyResult /\ merged = <<>>
OptionsIdle == ret = NoReturn

----------------------------------------------------------------------------
(* OptionsForDir called on the configurations of the model *)

Tokens == {"no-pk", "NO-PK", "bad-charset", "bad-engine", "bogus"}

WarningsValues ==
    {Join(ts, ",") : ts \in SeqsUpTo(Tokens, MaxWarnings)}
        \cup {Join(ts, ", ") : ts \in SeqsUpTo(Tokens, MaxErrors + 1)}

ErrorsValues == {Join(ts, ",") : ts \in SeqsUpTo(Tokens, MaxErrors)}

AllowValues ==
    {[charset |-> "latin1,utf8mb4", engine |-> "innodb"],
     [charset |-> "utf8mb4, utf8", engine |-> "myisam"]}

OptionsDirs ==
    {[NoDir EXCEPT !.Config = [o \in OptionNames |->
          CASE o = "warnings"      -> w
            [] o = "errors"        -> e
            [] o = "allow-charset" -> al.charset
            [] o = "allow-engine"  -> al.engine
            [] OTHER               -> ""],
        !.RelPath = "valid"] :
      w \in WarningsValues, e \in ErrorsValues, al \in AllowValues}

InitOptions ==
    /\ pc = "call"
    /\ dir \in OptionsDirs
    /\ ret = NoReturn
    /\ LintIdle /\ MessageIdle /\ MergeIdle

CallOptionsForDir ==
    /\ pc = "call"
    /\ ret' = OptionsForDir(dir)
    /\ pc' = "returned"
    /\ UNCHANGED <<dir, lintVars, a, rendered, r, other, merged>>

NextOptions == CallOptionsForDir

SpecOptions == InitOptions /\ [][NextOptions]_vars

----------------------------------------------------------------------------
(* MessageWithLocation called on the annotations of the model *)

Annotations ==
    {Annotation(Statement(f, l, c, "CREATE TABLE t1 (id int)"), o, "summary", "bad") :
        f \in {"", "a.sql"}, l \in 0..MaxLine, c \in 0..MaxCol, o \in (-1)..MaxOffset}

InitMessage ==
    /\ pc = "call"
    /\ a \in Annotations
    /\ rendered = ""
    /\ dir = NoDir
    /\ LintIdle /\ MergeIdle /\ OptionsIdle

CallMessageWithLocation ==
    /\ pc = "call"
    /\ rendered' = MessageWithLocation(a)
    /\ pc' = "returned"
    /\ UNCHANGED <<dir, lintVars, ret, a, r, other, merged>>

NextMessage == CallMessageWithLocation

SpecMessage == InitMessage /\ [][NextMessage]_vars

----------------------------------------------------------------------------
(* Merge called repeatedly on one receiver *)

Note(file, message) == Annotation(Statement(file, 1, 1, "CREATE"), 0, "summary", message)

MergeResults ==
    {[Errors        |-> e,
      Warnings      |-> w,
      FormatNotices |-> f,
      DebugLogs     |-> d,
      Exceptions    |-> x] :
        e \in {<<>>, <<Note("e.sql", "e1")>>, <<Note("e.sql", "e1"), Note("e.sql", "e2")>>},
        w \in {<<>>, <<Note("w.sql", "w1")>>},
        f \in {<<>>, <<Note("f.sql", "f1")>>},
        d \in {<<>>, <<"debug">>},
        x \in {<<>>, <<Errorf("exception")>>}}

InitMerge ==
    /\ pc = "idle"
    /\ r \in {EmptyResult,
              [Errors        |-> <<Note("r.sql", "e0"), Note("r.sql", "e9")>>,
               Warnings      |-> <<Note("r.sql", "w0")>>,
               FormatNotices |-> <<Note("r.sql", "f0")>>,
               DebugLogs     |-> <<"debug0">>,
               Exceptions    |-> <<ConfigError("x0")>>]}
    /\ other = EmptyResult
    /\ merged = <<r>>
    /\ dir = NoDir
    /\ LintIdle /\ MessageIdle /\ OptionsIdle

CallMerge ==
    /\ Len(merged) <= MaxMerges
    /\ \E o \in MergeResults :
          /\ other' = o
          /\ r' = Merge(r, o)
          /\ merged' = Append(merged, o)
    /\ pc' = "merged"
    /\ UNCHANGED <<dir, lintVars, ret, a, rendered>>

NextMerge == CallMerge

SpecMerge == InitMerge /\ [][NextMerge]_vars

----------------------------------------------------------------------------
(* The collaborators of LintDir: fs.Statement, fs.LogicalSchema, the       *)
(* workspace and the problem checkers                                      *)

\* (*fs.Statement).SplitTextBody: the text without its trailing delimiter
\* and whitespace, and the part cut off
SplitTextBody(stmt) ==
    LET body == TrimRight(TrimSuffix(TrimRight(stmt.Text, WhiteSpace), ";"), WhiteSpace)
    IN  [body |-> body, suffix |-> SubSeq(stmt.Text, Len(body) + 1, Len(stmt.Text))]

ObjectKey(type, name) == [Type |-> type, Name |-> name]
KeyString(key) == key.Type \o " " \o key.Name

TableT1 == ObjectKey("table", "t1")
FuncT1 == ObjectKey("function", "t1")

\* what the database makes of the CREATE statements of the model: the
\* canonical text of a statement it accepts, "" for one it rejects
CanonicalOf(body) ==
    CASE body = "CREATE TABLE t1 (id int)"  -> "CREATE TABLE t1 (id int)"
      [] body = "create table t1 (id int)"      -> "CREATE TABLE t1 (id int)"
      [] body = "CREATE FUNCTION t1() RETURNS int RETURN 1"
                                                -> "CREATE FUNCTION t1() RETURNS int RETURN 1"
      [] body = "create function t1() returns int return 1"
                                                -> "CREATE FUNCTION t1() RETURNS int RETURN 1"
      [] OTHER -> ""

KeyOrder == <<TableT1, FuncT1>>

\* workspace.ExecLogicalSchema(logicalSchema, wsOpts): (schema,
\* statementErrors, err).  A logical schema whose character set the server
\* does not know cannot be created at all; a statement the server rejects is
\* a statement error, and its object is not part of the schema.
ExecLogicalSchema(ls) ==
    LET keys     == SelectSeq(KeyOrder, LAMBDA k : k \in DOMAIN ls.Creates)
        accepted(k) == CanonicalOf(SplitTextBody(ls.Creates[k]).body) # ""
        okKeys   == {k \in DOMAIN ls.Creates : accepted(k)}
        failed   == SelectSeq(keys, LAMBDA k : ~accepted(k))
    IN  IF ls.CharSet \notin {"latin1", "utf8mb4"}
        THEN [schema |-> NoSchema, statementErrors |-> <<>>,
              err |-> Errorf("Unknown character set: '" \o ls.CharSet \o "'")]
        ELSE [schema |->
                 [Definitions |-> [k \in okKeys |->
                                      CanonicalOf(SplitTextBody(ls.Creates[k]).body)],
                  Tables |-> IF TableT1 \in okKeys
                             THEN <<[Name |-> "t1", HasPK |-> FALSE,
                                     CharSet |-> ls.CharSet, Engine |-> "innodb"]>>
                             ELSE <<>>],
              statementErrors |->
                 [i \in 1..Len(failed) |->
                     [ObjectType |-> failed[i].Type,
                      ObjectName |-> failed[i].Name,
                      Statement  |-> ls.Creates[failed[i]],
                      Err        |-> "You have an error in your SQL syntax near " \o KeyString(failed[i])]],
              err |-> NilError]

\* problems[problemName](schema, logicalSchema, opts): the annotations of one
\* checker, one per table of the schema that has the problem
problems(problemName, sch, ls, o) ==
    LET has(t) ==
            CASE problemName = "no-pk"       -> ~t.HasPK
              [] problemName = "bad-charset" ->
                     \A i \in 1..Len(o.AllowedCharSets) : o.AllowedCharSets[i] # t.CharSet
              [] problemName = "bad-engine"  ->
                     \A i \in 1..Len(o.AllowedEngines) : o.AllowedEngines[i] # t.Engine
              [] OTHER -> FALSE
        hit == SelectSeq(sch.Tables, has)
    IN  [i \in 1..Len(hit) |->
            Annotation(ls.Creates[ObjectKey("table", hit[i].Name)], 1, problemName,
                       "Table " \o hit[i].Name \o " has problem " \o problemName)]

----------------------------------------------------------------------------
(* LintDir *)

foundIgnoredName ==
    \E i \in 1..Len(GetSlice(dir.Config, "schema", ",")) :
        MatchString(ignoreSchema, GetSlice(dir.Config, "schema", ",")[i])

\* linter.go 67-80: the two patterns and the options; any failure returns
\* BadConfigResult
LintDirConfig ==
    /\ pc = "start"
    /\ LET it == GetRegexp(dir.Config, "ignore-table")
           is == GetRegexp(dir.Config, "ignore-schema")
           o  == OptionsForDir(dir)
       IN  IF it.err # NilError
           THEN /\ result' = BadConfigResult(it.err)
                /\ pc' = "done"
                /\ UNCHANGED <<ignoreTable, ignoreSchema, opts, lsIdx>>
           ELSE IF is.err # NilError
           THEN /\ result' = BadConfigResult(is.err)
                /\ pc' = "done"
                /\ ignoreTable' = it.re
                /\ UNCHANGED <<ignoreSchema, opts, lsIdx>>
           ELSE IF o.err # NilError
           THEN /\ result' = BadConfigResult(o.err)
                /\ pc' = "done"
                /\ ignoreTable' = it.re
                /\ ignoreSchema' = is.re
                /\ UNCHANGED <<opts, lsIdx>>
           ELSE /\ ignoreTable' = it.re
                /\ ignoreSchema' = is.re
                /\ opts' = o.opts
                /\ lsIdx' = 1
                /\ pc' = "loop"
                /\ UNCHANGED result
    /\ UNCHANGED <<dir, schema, statementErrors, problemsLeft, objectsLeft,
                   execCalls, ret, a, rendered, r, other, merged>>

LintDirIgnoreSchema_Continue ==
    /\ pc = "loop"
    /\ lsIdx <= Len(dir.LogicalSchemas)
    /\ ignoreSchema.set
    /\ foundIgnoredName
    /\ result' = [result EXCEPT !.DebugLogs =
          Append(@, "Skipping schema in " \o dir.RelPath \o " because ignore-schema='"
                    \o ignoreSchema.pattern \o "'")]
    /\ lsIdx' = lsIdx + 1
    /\ UNCHANGED <<pc, dir, ignoreTable, ignoreSchema, opts, schema,
                   statementErrors, problemsLeft, objectsLeft, execCalls, ret,
                   a, rendered, r, other, merged>>

\* linter.go 86-97: a literal schema name matches ignore-schema
LintDirIgnoreSchema ==
    /\ pc = "loop"
    /\ lsIdx <= Len(dir.LogicalSchemas)
    /\ ignoreSchema.set
    /\ foundIgnoredName
    /\ result' = [result EXCEPT !.DebugLogs =
          Append(@, "Skipping schema in " \o dir.RelPath \o " because ignore-schema='"
                    \o ignoreSchema.pattern \o "'")]
    /\ pc' = "done"
    /\ UNCHANGED <<dir, ignoreTable, ignoreSchema, opts, lsIdx, schema,
                   statementErrors, problemsLeft, objectsLeft, execCalls, ret,
                   a, rendered, r, other, merged>>

LintDirExec_ReturnOnFailure ==
    /\ pc = "loop"
    /\ lsIdx <= Len(dir.LogicalSchemas)
    /\ ~(ignoreSchema.set /\ foundIgnoredName)
    /\ execCalls' = Append(execCalls, lsIdx)
    /\ LET ws == ExecLogicalSchema(dir.LogicalSchemas[lsIdx])
       IN  IF ws.err # NilError
           THEN /\ result' = [result EXCEPT !.Exceptions =
                      Append(@, Errorf("Skipping schema in " \o dir.RelPath
                                       \o " due to error: " \o ws.err.msg))]
                /\ pc' = "done"
                /\ UNCHANGED <<lsIdx, schema, statementErrors>>
           ELSE /\ schema' = ws.schema
                /\ statementErrors' = ws.statementErrors
                /\ pc' = "statementErrors"
                /\ UNCHANGED <<result, lsIdx>>
    /\ UNCHANGED <<dir, ignoreTable, ignoreSchema, opts, problemsLeft,
                   objectsLeft, ret, a, rendered, r, other, merged>>

\* linter.go 101-105: the logical schema is materialized; a failure is
\* recorded and the loop continues
LintDirExec ==
    /\ pc = "loop"
    /\ lsIdx <= Len(dir.LogicalSchemas)
    /\ ~(ignoreSchema.set /\ foundIgnoredName)
    /\ execCalls' = Append(execCalls, lsIdx)
    /\ LET ws == ExecLogicalSchema(dir.LogicalSchemas[lsIdx])
       IN  IF ws.err # NilError
           THEN /\ result' = [result EXCEPT !.Exceptions =
                      Append(@, Errorf("Skipping schema in " \o dir.RelPath
                                       \o " due to error: " \o ws.err.msg))]
                /\ lsIdx' = lsIdx + 1
                /\ UNCHANGED <<pc, schema, statementErrors>>
           ELSE /\ schema' = ws.schema
                /\ statementErrors' = ws.statementErrors
                /\ pc' = "statementErrors"
                /\ UNCHANGED <<result, lsIdx>>
    /\ UNCHANGED <<dir, ignoreTable, ignoreSchema, opts, problemsLeft,
                   objectsLeft, ret, a, rendered, r, other, merged>>

LintDirStatementError_AnyObjectType ==
    /\ pc = "statementErrors"
    /\ statementErrors # <<>>
    /\ LET stmtErr == Head(statementErrors)
       IN  IF /\ ignoreTable.set
              /\ MatchString(ignoreTable, stmtErr.ObjectName)
           THEN result' = [result EXCEPT !.DebugLogs =
                    Append(@, "Skipping "
                              \o KeyString(ObjectKey(stmtErr.ObjectType, stmtErr.ObjectName))
                              \o " because ignore-table='" \o ignoreTable.pattern \o "'")]
           ELSE result' = [result EXCEPT !.Errors =
                    Append(@, Annotation(stmtErr.Statement, 0,
                                         "SQL statement returned an error", stmtErr.Err))]
    /\ statementErrors' = Tail(statementErrors)
    /\ UNCHANGED <<pc, dir, ignoreTable, ignoreSchema, opts, lsIdx, schema,
                   problemsLeft, objectsLeft, execCalls, ret, a, rendered, r,
                   other, merged>>

\* linter.go 106-116: one iteration of the loop over statementErrors
LintDirStatementError ==
    /\ pc = "statementErrors"
    /\ statementErrors # <<>>
    /\ LET stmtErr == Head(statementErrors)
       IN  IF /\ stmtErr.ObjectType = "table"
              /\ ignoreTable.set
              /\ MatchString(ignoreTable, stmtErr.ObjectName)
           THEN result' = [result EXCEPT !.DebugLogs =
                    Append(@, "Skipping "
                              \o KeyString(ObjectKey(stmtErr.ObjectType, stmtErr.ObjectName))
                              \o " because ignore-table='" \o ignoreTable.pattern \o "'")]
           ELSE result' = [result EXCEPT !.Errors =
                    Append(@, Annotation(stmtErr.Statement, 0,
                                         "SQL statement returned an error", stmtErr.Err))]
    /\ statementErrors' = Tail(statementErrors)
    /\ UNCHANGED <<pc, dir, ignoreTable, ignoreSchema, opts, lsIdx, schema,
                   problemsLeft, objectsLeft, execCalls, ret, a, rendered, r,
                   other, merged>>

\* linter.go 118: the range over opts.ProblemSeverity begins
LintDirProblemsBegin ==
    /\ pc = "statementErrors"
    /\ statementErrors = <<>>
    /\ problemsLeft' = DOMAIN opts.ProblemSeverity
    /\ pc' = "problems"
    /\ UNCHANGED <<dir, result, ignoreTable, ignoreSchema, opts, lsIdx, schema,
                   statementErrors, objectsLeft, execCalls, ret, a, rendered,
                   r, other, merged>>

LintDirProblem_SeverityIgnored ==
    /\ pc = "problems"
    /\ \E problemName \in problemsLeft :
          LET annotations == problems(problemName, schema,
                                      dir.LogicalSchemas[lsIdx], opts)
          IN  /\ result' = [result EXCEPT !.Errors = @ \o annotations]
              /\ problemsLeft' = problemsLeft \ {problemName}
    /\ UNCHANGED <<pc, dir, ignoreTable, ignoreSchema, opts, lsIdx, schema,
                   statementErrors, objectsLeft, execCalls, ret, a, rendered,
                   r, other, merged>>

\* linter.go 118-125: one iteration of the range over opts.ProblemSeverity,
\* in whatever order the map yields its keys
LintDirProblem ==
    /\ pc = "problems"
    /\ \E problemName \in problemsLeft :
          LET severity    == opts.ProblemSeverity[problemName]
              annotations == problems(problemName, schema,
                                      dir.LogicalSchemas[lsIdx], opts)
          IN  /\ IF severity = SeverityWarning
                 THEN result' = [result EXCEPT !.Warnings = @ \o annotations]
                 ELSE result' = [result EXCEPT !.Errors = @ \o annotations]
              /\ problemsLeft' = problemsLeft \ {problemName}
    /\ UNCHANGED <<pc, dir, ignoreTable, ignoreSchema, opts, lsIdx, schema,
                   statementErrors, objectsLeft, execCalls, ret, a, rendered,
                   r, other, merged>>

\* linter.go 130: the range over schema.ObjectDefinitions() begins
LintDirReformatBegin ==
    /\ pc = "problems"
    /\ problemsLeft = {}
    /\ objectsLeft' = DOMAIN schema.Definitions
    /\ pc' = "reformat"
    /\ UNCHANGED <<dir, result, ignoreTable, ignoreSchema, opts, lsIdx, schema,
                   statementErrors, problemsLeft, execCalls, ret, a, rendered,
                   r, other, merged>>

LintDirReformat_WholeText ==
    /\ pc = "reformat"
    /\ \E key \in objectsLeft :
          LET instCreateText == schema.Definitions[key]
              fsStmt         == dir.LogicalSchemas[lsIdx].Creates[key]
              split          == SplitTextBody(fsStmt)
          IN  /\ IF /\ key.Type = "table"
                    /\ ignoreTable.set
                    /\ MatchString(ignoreTable, key.Name)
                 THEN result' = [result EXCEPT !.DebugLogs =
                          Append(@, "Skipping " \o KeyString(key)
                                    \o " because ignore-table='"
                                    \o ignoreTable.pattern \o "'")]
                 ELSE IF instCreateText # fsStmt.Text
                 THEN result' = [result EXCEPT !.FormatNotices =
                          Append(@, Annotation(fsStmt, 0,
                                               "SQL statement should be reformatted",
                                               instCreateText \o split.suffix))]
                 ELSE result' = result
              /\ objectsLeft' = objectsLeft \ {key}
    /\ UNCHANGED <<pc, dir, ignoreTable, ignoreSchema, opts, lsIdx, schema,
                   statementErrors, problemsLeft, execCalls, ret, a, rendered,
                   r, other, merged>>

\* linter.go 130-144: one iteration of the range over
\* schema.ObjectDefinitions(), in whatever order the map yields its keys
LintDirReformat ==
    /\ pc = "reformat"
    /\ \E key \in objectsLeft :
          LET instCreateText == schema.Definitions[key]
              fsStmt         == dir.LogicalSchemas[lsIdx].Creates[key]
              split          == SplitTextBody(fsStmt)
          IN  /\ IF /\ key.Type = "table"
                    /\ ignoreTable.set
                    /\ MatchString(ignoreTable, key.Name)
                 THEN result' = [result EXCEPT !.DebugLogs =
                          Append(@, "Skipping " \o KeyString(key)
                                    \o " because ignore-table='"
                                    \o ignoreTable.pattern \o "'")]
                 ELSE IF instCreateText # split.body
                 THEN result' = [result EXCEPT !.FormatNotices =
                          Append(@, Annotation(fsStmt, 0,
                                               "SQL statement should be reformatted",
                                               instCreateText \o split.suffix))]
                 ELSE result' = result
              /\ objectsLeft' = objectsLeft \ {key}
    /\ UNCHANGED <<pc, dir, ignoreTable, ignoreSchema, opts, lsIdx, schema,
                   statementErrors, problemsLeft, execCalls, ret, a, rendered,
                   r, other, merged>>

\* linter.go 145: the end of the body of the loop over dir.LogicalSchemas
LintDirNextSchema ==
    /\ pc = "reformat"
    /\ objectsLeft = {}
    /\ lsIdx' = lsIdx + 1
    /\ pc' = "loop"
    /\ UNCHANGED <<dir, result, ignoreTable, ignoreSchema, opts, schema,
                   statementErrors, problemsLeft, objectsLeft, execCalls, ret,
                   a, rendered, r, other, merged>>

\* linter.go 146: return result
LintDirReturn ==
    /\ pc = "loop"
    /\ lsIdx > Len(dir.LogicalSchemas)
    /\ pc' = "done"
    /\ UNCHANGED <<dir, lintVars, ret, a, rendered, r, other, merged>>

----------------------------------------------------------------------------
(* The directories LintDir is called on *)

StatementOf(key, text) == Statement(key.Name \o "." \o key.Type \o ".sql", 1, 1, text)

LogicalSchema(charSet, tableText, functionText) ==
    [CharSet |-> charSet,
     Creates |-> [k \in {TableT1, FuncT1} |->
                    IF k = TableT1 THEN StatementOf(k, tableText)
                    ELSE StatementOf(k, functionText)]]

LogicalSchemaKinds ==
    { \* everything in canonical form
      LogicalSchema("latin1", "CREATE TABLE t1 (id int);\n",
                    "CREATE FUNCTION t1() RETURNS int RETURN 1;\n"),
      \* a table to reformat, a function the server rejects
      LogicalSchema("latin1", "create table t1 (id int);\n",
                    "CREATE FUNCTION t1() RETURN;\n"),
      \* a table the server rejects, a function to reformat
      LogicalSchema("utf8mb4", "CREATE TABLE t1 (id in)\n;",
                    "create function t1() returns int return 1 ;"),
      \* a character set the server does not know
      LogicalSchema("klingon", "CREATE TABLE t1 (id int);\n",
                    "CREATE FUNCTION t1() RETURNS int RETURN 1;\n") }

SeverityValues ==
    {[warnings |-> "no-pk,bad-charset,bad-engine", errors |-> ""],
     [warnings |-> "Bad-Charset", errors |-> "no-pk"],
     [warnings |-> "no-pk", errors |-> "bogus"]}

LintDirs ==
    {[Config |-> [o \in OptionNames |->
          CASE o = "warnings"      -> sev.warnings
            [] o = "errors"        -> sev.errors
            [] o = "allow-charset" -> "utf8mb4"
            [] o = "allow-engine"  -> "innodb"
            [] o = "ignore-table"  -> it
            [] o = "ignore-schema" -> is
            [] o = "schema"        -> names],
      LogicalSchemas |-> lss,
      RelPath |-> "dir"] :
        sev \in SeverityValues,
        it \in {"", "(", "^t1", "^users"},
        is \in {"", "(", "^ign"},
        names \in {"app", "app, ignored"},
        lss \in SeqsUpTo(LogicalSchemaKinds, MaxSchemas)}

Init ==
    /\ pc = "start"
    /\ dir \in LintDirs
    /\ LintIdle /\ MessageIdle /\ MergeIdle /\ OptionsIdle

Next ==
    \/ LintDirConfig
    \/ LintDirIgnoreSchema
    \/ LintDirExec
    \/ LintDirStatementError
    \/ LintDirProblemsBegin
    \/ LintDirProblem
    \/ LintDirReformatBegin
    \/ LintDirReformat
    \/ LintDirNextSchema
    \/ LintDirReturn

Spec == Init /\ [][Next]_vars

----------------------------------------------------------------------------
(* Properties of OptionsForDir (SpecOptions) *)

KnownNames == {"no-pk", "bad-charset", "bad-engine"}

Range(seq) == {seq[i] : i \in 1..Len(seq)}

WarningsList == GetSlice(dir.Config, "warnings", ",")
ErrorsList == GetSlice(dir.Config, "errors", ",")
LowerNames(list) == {ToLower(t) : t \in Range(list)}
AllKnown(list) == LowerNames(list) \subseteq KnownNames

\* C4: for a configuration whose warnings and errors lists hold only known
\* problem names, OptionsForDir returns a nil error and a ProblemSeverity map
\* whose keys are exactly the lower-cased names of both lists, a name of the
\* errors list at error (also when it is in the warnings list too) and every
\* other name at warning; the allow-lists are the configured lists in order;
\* warnings=no-pk,bad-charset,bad-engine with errors unset gives exactly
\* those three names at warning.
C4_ValidOptions ==
    (pc = "returned" /\ AllKnown(WarningsList) /\ AllKnown(ErrorsList)) =>
        /\ ret.err = NilError
        /\ DOMAIN ret.opts.ProblemSeverity = LowerNames(WarningsList) \cup LowerNames(ErrorsList)
        /\ \A name \in DOMAIN ret.opts.ProblemSeverity :
              ret.opts.ProblemSeverity[name] =
                  IF name \in LowerNames(ErrorsList) THEN "error" ELSE "warning"
        /\ (dir.Config["allow-charset"] = "utf8mb4, utf8" =>
              ret.opts.AllowedCharSets = <<"utf8mb4", "utf8">>)
        /\ (dir.Config["allow-charset"] = "latin1,utf8mb4" =>
              ret.opts.AllowedCharSets = <<"latin1", "utf8mb4">>)
        /\ (dir.Config["allow-engine"] = "myisam" => ret.opts.AllowedEngines = <<"myisam">>)
        /\ (dir.Config["allow-engine"] = "innodb" => ret.opts.AllowedEngines = <<"innodb">>)
        /\ ((dir.Config["warnings"] = "no-pk,bad-charset,bad-engine" /\ dir.Config["errors"] = "") =>
              ret.opts.ProblemSeverity =
                  [name \in KnownNames |-> "warning"])

\* a name given in upper case in the warnings list and again in the errors
\* list ends at error, beside another name at warning
C4_Witness ==
    /\ pc = "returned"
    /\ dir.Config["warnings"] = "NO-PK, bad-charset"
    /\ dir.Config["errors"] = "no-pk"
    /\ dir.Config["allow-charset"] = "utf8mb4, utf8"
    /\ ret.err = NilError
    /\ ret.opts.ProblemSeverity = [name \in {"no-pk", "bad-charset"} |->
                                      IF name = "no-pk" THEN "error" ELSE "warning"]

\* C5: for a configuration whose warnings or errors list holds a token that
\* is not a known problem name after lower-casing, OptionsForDir returns a
\* ConfigError; its message begins with "Option warnings " when the unknown
\* token is in the warnings list, and with "Option errors " when the warnings
\* list is valid and the unknown token is in the errors list; every key of
\* the returned ProblemSeverity map is a known problem name.
C5_UnknownName ==
    (pc = "returned" /\ ~(AllKnown(WarningsList) /\ AllKnown(ErrorsList))) =>
        /\ ret.err.type = "ConfigError"
        /\ (~AllKnown(WarningsList) => HasPrefix(ret.err.msg, "Option warnings "))
        /\ (AllKnown(WarningsList) => HasPrefix(ret.err.msg, "Option errors "))
        /\ DOMAIN ret.opts.ProblemSeverity \subseteq KnownNames

\* both lists hold an unknown token: the warnings list is reported, and the
\* name recorded before the unknown one is in the returned map
C5_Witness ==
    /\ pc = "returned"
    /\ dir.Config["warnings"] = "no-pk,bogus"
    /\ dir.Config["errors"] = "bogus"
    /\ ret.err = ConfigError("Option warnings must be a comma-separated list including these values: bad-charset, bad-engine, no-pk")
    /\ DOMAIN ret.opts.ProblemSeverity = {"no-pk"}

----------------------------------------------------------------------------
(* Properties of MessageWithLocation (SpecMessage) *)

\* C6: the output form is chosen by these checks in this order: statement
\* file empty or line number 0 gives "<message> [Full SQL: <text>]";
\* otherwise lineOffset = 0 and column > 1 gives "<file>:<line>:<col>:
\* <message>"; otherwise "<file>:<line + lineOffset>: <message>".  So for a
\* located statement a non-zero lineOffset always gives the adjusted line
\* without a column.
C6_MessageForm ==
    pc = "returned" =>
        LET st      == a.Statement
            located == st.File # "" /\ st.LineNo # 0
            withCol == st.File \o ":" \o ToString(st.LineNo) \o ":"
                       \o ToString(st.CharNo) \o ": " \o a.Message
            noCol   == st.File \o ":" \o ToString(st.LineNo + a.LineOffset)
                       \o ": " \o a.Message
        IN  /\ ~located => rendered = a.Message \o " [Full SQL: " \o st.Text \o "]"
            /\ (located /\ a.LineOffset = 0 /\ st.CharNo > 1) => rendered = withCol
            /\ (located /\ ~(a.LineOffset = 0 /\ st.CharNo > 1)) => rendered = noCol
            /\ (located /\ a.LineOffset # 0) => rendered = noCol /\ rendered # withCol

\* file a.sql, line 5, column 3, offset 2: the column is left out
C6_Witness ==
    /\ pc = "returned"
    /\ a.Statement.File = "a.sql" /\ a.Statement.LineNo = 5 /\ a.Statement.CharNo = 3
    /\ a.LineOffset = 2
    /\ rendered = "a.sql:7: bad"

----------------------------------------------------------------------------
(* Properties of Merge (SpecMerge) *)

Fields == {"Errors", "Warnings", "FormatNotices", "DebugLogs", "Exceptions"}

RECURSIVE ConcatField(_, _)
ConcatField(results, f) ==
    IF results = <<>> THEN <<>>
    ELSE results[1][f] \o ConcatField(Tail(results), f)

\* C7: a Merge call leaves in each of the five fields of the receiver its
\* previous sequence followed by the argument's sequence of the same field;
\* so after any sequence of Merge calls each field of the receiver is the
\* in-order concatenation of that field over the receiver's first value and
\* all merged Results.
C7_MergeConcatenates ==
    /\ [][Len(merged') = Len(merged) + 1 =>
            /\ other' = merged'[Len(merged')]
            /\ \A f \in Fields :
                  /\ Len(r'[f]) = Len(r[f]) + Len(other'[f])
                  /\ SubSeq(r'[f], 1, Len(r[f])) = r[f]
                  /\ SubSeq(r'[f], Len(r[f]) + 1, Len(r'[f])) = other'[f]]_vars
    /\ [](\A f \in Fields : r[f] = ConcatField(merged, f))

\* a Result with one error and one warning merged into a receiver with two
\* errors: three errors, the receiver's first
C7_Witness ==
    /\ pc = "merged"
    /\ Len(merged) = 2
    /\ Len(merged[1].Errors) = 2 /\ Len(other.Errors) = 1 /\ Len(other.Warnings) = 1
    /\ r.Errors = merged[1].Errors \o other.Errors
    /\ r.Warnings = merged[1].Warnings \o other.Warnings

----------------------------------------------------------------------------
(* Properties of LintDir (Spec) *)

BadIgnoreTable == dir.Config["ignore-table"] = "("
BadIgnoreSchema == dir.Config["ignore-schema"] = "("
BadOptions == ~(AllKnown(WarningsList) /\ AllKnown(ErrorsList))
ConfigFails == BadIgnoreTable \/ BadIgnoreSchema \/ BadOptions

\* the ignore-schema pattern of the directory matches one of its schema names
IgnoredDir ==
    /\ dir.Config["ignore-schema"] = "^ign"
    /\ dir.Config["schema"] = "app, ignored"

\* the ignore-table pattern of the directory matches the table name
TableIgnored(name) ==
    \/ dir.Config["ignore-table"] = "^t1" /\ name = "t1"
    \/ dir.Config["ignore-table"] = "^users" /\ name = "users"

CompletedRun == pc = "done" /\ ~ConfigFails /\ ~IgnoredDir

Extends(new, old) ==
    Len(new) >= Len(old) /\ SubSeq(new, 1, Len(old)) = old

SeqToBag(seq) ==
    [x \in Range(seq) |-> Cardinality({i \in 1..Len(seq) : seq[i] = x})]

RECURSIVE Sum(_)
Sum(seq) == IF seq = <<>> THEN 0 ELSE Head(seq) + Sum(Tail(seq))

RECURSIVE Concat(_)
Concat(seqs) == IF seqs = <<>> THEN <<>> ELSE Head(seqs) \o Concat(Tail(seqs))

SumOver(seq, F(_)) == Sum([i \in 1..Len(seq) |-> F(seq[i])])

ConcatOver(seq, F(_)) == Concat([i \in 1..Len(seq) |-> F(seq[i])])

\* C1: when the ignore-table pattern or the ignore-schema pattern is
\* malformed, or OptionsForDir fails, LintDir returns a Result whose
\* Exceptions holds exactly one value, a ConfigError, and whose Errors,
\* Warnings, FormatNotices and DebugLogs are empty, whatever the logical
\* schemas of the directory, and ExecLogicalSchema is never called.
C1_ConfigFailureIsFatal ==
    ConfigFails =>
        /\ pc \in {"start", "done"}
        /\ execCalls = <<>>
        /\ pc = "done" =>
              /\ Len(result.Exceptions) = 1
              /\ result.Exceptions[1].type = "ConfigError"
              /\ result.Errors = <<>> /\ result.Warnings = <<>>
              /\ result.FormatNotices = <<>> /\ result.DebugLogs = <<>>

\* a malformed ignore-schema pattern in a directory with two logical schemas
C1_Witness ==
    /\ pc = "done"
    /\ BadIgnoreSchema /\ ~BadIgnoreTable /\ ~BadOptions
    /\ Len(dir.LogicalSchemas) = 2
    /\ result.Exceptions = <<ConfigError("Invalid regexp for ignore-schema: (")>>

SkipEntry == "Skipping schema in dir because ignore-schema='^ign'"

SkipEntries == Cardinality({i \in 1..Len(result.DebugLogs) : result.DebugLogs[i] = SkipEntry})

\* C2 as stated: when ignore-schema matches a literal schema name, only that
\* logical schema is skipped and every later logical schema of the directory
\* is still examined: each logical schema is either skipped with a debug
\* entry of its own or materialized.
C2_EverySchemaExamined ==
    (pc = "done" /\ ~ConfigFails /\ IgnoredDir) =>
        SkipEntries + Len(execCalls) = Len(dir.LogicalSchemas)

\* C2 amended: when ignore-schema matches a literal schema name of the
\* directory, LintDir returns at the first logical schema: the Result holds
\* exactly one debug log entry, no finding and no exception, no logical
\* schema is materialized and none after the first is examined.
C2_SkipsWholeDirectory ==
    (~ConfigFails /\ IgnoredDir) =>
        /\ execCalls = <<>>
        /\ pc \in {"start", "loop", "done"}
        /\ lsIdx <= 1
        /\ (pc = "done" /\ dir.LogicalSchemas # <<>>) =>
              result = [EmptyResult EXCEPT !.DebugLogs = <<SkipEntry>>]

\* a directory with two logical schemas is left after one debug entry
C2_Witness ==
    /\ pc = "done"
    /\ ~ConfigFails /\ IgnoredDir
    /\ Len(dir.LogicalSchemas) = 2
    /\ result.DebugLogs = <<SkipEntry>>

Unmaterializable(ls) == ls.CharSet = "klingon"

\* C3: a materialization failure for one logical schema appends exactly one
\* entry to Exceptions and nothing to the other fields, and the loop goes on
\* with the next logical schema; no step of LintDir removes or changes an
\* entry already in the Result; a run that is not cut short by the
\* configuration or ignore-schema materializes every logical schema in order,
\* and ends with one exception per failed materialization.
C3_MaterializationFailureIsRecoverable ==
    /\ [][(Len(execCalls') = Len(execCalls) + 1
           /\ Unmaterializable(dir.LogicalSchemas[lsIdx])) =>
              /\ Len(result'.Exceptions) = Len(result.Exceptions) + 1
              /\ Extends(result'.Exceptions, result.Exceptions)
              /\ result'.Errors = result.Errors
              /\ result'.Warnings = result.Warnings
              /\ result'.FormatNotices = result.FormatNotices
              /\ result'.DebugLogs = result.DebugLogs
              /\ pc' = "loop"
              /\ lsIdx' = lsIdx + 1]_vars
    /\ [][pc # "start" => \A f \in Fields : Extends(result'[f], result[f])]_vars
    /\ [](CompletedRun =>
              /\ execCalls = [i \in 1..Len(dir.LogicalSchemas) |-> i]
              /\ Len(result.Exceptions) =
                    SumOver(dir.LogicalSchemas,
                            LAMBDA ls : IF Unmaterializable(ls) THEN 1 ELSE 0))

\* the first logical schema cannot be materialized, the second is linted
C3_Witness ==
    /\ pc = "done"
    /\ Len(dir.LogicalSchemas) = 2
    /\ Unmaterializable(dir.LogicalSchemas[1])
    /\ result.Exceptions =
          <<Errorf("Skipping schema in dir due to error: Unknown character set: 'klingon'")>>
    /\ execCalls = <<1, 2>>
    /\ Len(result.FormatNotices) = 1
    /\ Len(result.Errors) >= 1

ReformatSummary == "SQL statement should be reformatted"

\* the number of format notices a logical schema is due
NoticesDue(ls) ==
    IF Unmaterializable(ls) THEN 0
    ELSE (IF ls.Creates[TableT1].Text = "create table t1 (id int);\n"
             /\ ~TableIgnored("t1") THEN 1 ELSE 0)
         + (IF ls.Creates[FuncT1].Text = "create function t1() returns int return 1 ;"
            THEN 1 ELSE 0)

\* C8: in the reformat loop, a table whose name matches the ignore-table
\* pattern gives one debug log entry and no FormatNotice; any other object
\* gives exactly one FormatNotice if its canonical CREATE text differs from
\* the body of the filesystem statement with the same key, and nothing if
\* they are equal.  The notice's statement is the filesystem statement, its
\* summary "SQL statement should be reformatted", its message the canonical
\* text followed by the filesystem statement's suffix.
C8_ReformatDetection ==
    /\ [][\A key \in {TableT1, FuncT1} :
            (pc = "reformat" /\ key \in objectsLeft /\ objectsLeft' = objectsLeft \ {key}) =>
               LET fsStmt    == dir.LogicalSchemas[lsIdx].Creates[key]
                   canonical == schema.Definitions[key]
                   split     == SplitTextBody(fsStmt)
               IN  /\ IF key.Type = "table" /\ TableIgnored(key.Name)
                      THEN /\ Len(result'.DebugLogs) = Len(result.DebugLogs) + 1
                           /\ Extends(result'.DebugLogs, result.DebugLogs)
                           /\ result'.FormatNotices = result.FormatNotices
                      ELSE IF canonical # split.body
                      THEN /\ result'.FormatNotices =
                                 Append(result.FormatNotices,
                                        [Statement  |-> fsStmt,
                                         LineOffset |-> 0,
                                         Summary    |-> ReformatSummary,
                                         Message    |-> canonical \o split.suffix])
                           /\ result'.DebugLogs = result.DebugLogs
                      ELSE /\ result'.FormatNotices = result.FormatNotices
                           /\ result'.DebugLogs = result.DebugLogs
                   /\ result'.Errors = result.Errors
                   /\ result'.Warnings = result.Warnings
                   /\ result'.Exceptions = result.Exceptions]_vars
    /\ [](CompletedRun =>
             Len(result.FormatNotices) = SumOver(dir.LogicalSchemas, NoticesDue))

\* the function written in lower case and ending in " ;" is to be reformatted
C8_Witness ==
    /\ pc = "done"
    /\ Len(dir.LogicalSchemas) = 1
    /\ result.FormatNotices =
          <<[Statement  |-> Statement("t1.function.sql", 1, 1,
                                      "create function t1() returns int return 1 ;"),
             LineOffset |-> 0,
             Summary    |-> ReformatSummary,
             Message    |-> "CREATE FUNCTION t1() RETURNS int RETURN 1 ;"]>>

StatementErrorSummary == "SQL statement returned an error"

\* C9: for each statement error of a successful materialization LintDir
\* does exactly one of two things: for a table whose name matches a set
\* ignore-table pattern it appends one debug log entry and no annotation;
\* in every other case it appends to Errors exactly one Annotation with
\* summary "SQL statement returned an error", the error text as message, the
\* offending statement and lineOffset 0.  Exceptions, Warnings and
\* FormatNotices are left alone.
C9_StatementErrors ==
    [][(pc = "statementErrors" /\ statementErrors # <<>>
        /\ statementErrors' = Tail(statementErrors)) =>
           LET stmtErr == Head(statementErrors)
           IN  /\ IF stmtErr.ObjectType = "table" /\ TableIgnored(stmtErr.ObjectName)
                  THEN /\ Len(result'.DebugLogs) = Len(result.DebugLogs) + 1
                       /\ Extends(result'.DebugLogs, result.DebugLogs)
                       /\ result'.Errors = result.Errors
                  ELSE /\ result'.Errors =
                             Append(result.Errors,
                                    [Statement  |-> stmtErr.Statement,
                                     LineOffset |-> 0,
                                     Summary    |-> StatementErrorSummary,
                                     Message    |-> stmtErr.Err])
                       /\ result'.DebugLogs = result.DebugLogs
               /\ result'.Exceptions = result.Exceptions
               /\ result'.Warnings = result.Warnings
               /\ result'.FormatNotices = result.FormatNotices]_vars

\* ignore-table matches t1, and the error of function t1 is still reported
C9_Witness ==
    /\ pc = "statementErrors"
    /\ statementErrors = <<>>
    /\ dir.Config["ignore-table"] = "^t1"
    /\ Len(result.Errors) = 1
    /\ result.Errors[1].Summary = StatementErrorSummary
    /\ result.Errors[1].Statement.File = "t1.function.sql"
    /\ result.Errors[1].Message = "You have an error in your SQL syntax near function t1"
    /\ result.DebugLogs = <<>>

\* the severity the configuration gives a problem name
ConfiguredSeverity(name) ==
    IF name \in LowerNames(ErrorsList) THEN "error" ELSE "warning"

ConfiguredNames(severity) ==
    SelectSeq(allProblemNames,
              LAMBDA name : /\ name \in LowerNames(WarningsList) \cup LowerNames(ErrorsList)
                            /\ ConfiguredSeverity(name) = severity)

\* what the checkers of the given severity find in one logical schema
Findings(ls, severity) ==
    IF Unmaterializable(ls) THEN <<>>
    ELSE ConcatOver(ConfiguredNames(severity),
                    LAMBDA name : problems(name, ExecLogicalSchema(ls).schema, ls,
                                           OptionsForDir(dir).opts))

\* the statement errors of one logical schema that are reported
ReportedStatementErrors(ls) ==
    IF Unmaterializable(ls) THEN <<>>
    ELSE LET errs == SelectSeq(ExecLogicalSchema(ls).statementErrors,
                         LAMBDA e : ~(e.ObjectType = "table" /\ TableIgnored(e.ObjectName)))
         IN  [i \in 1..Len(errs) |->
                 Annotation(errs[i].Statement, 0, StatementErrorSummary, errs[i].Err)]

\* C10: for each materialized logical schema and each configured problem
\* name, the annotations of that problem's checker are appended to Warnings
\* when the problem's severity is warning and to Errors otherwise, and the
\* other list is left alone; whatever the order in which the problems are
\* taken, the Warnings of a completed run are, as a multiset, the findings of
\* the warning problems over all materialized logical schemas, and the Errors
\* the reported statement errors and the findings of the error problems.
C10_SeverityPartition ==
    /\ [][\A name \in KnownNames :
            (pc = "problems" /\ name \in problemsLeft
             /\ problemsLeft' = problemsLeft \ {name}) =>
               LET found == problems(name, schema, dir.LogicalSchemas[lsIdx], opts)
               IN  IF ConfiguredSeverity(name) = "warning"
                   THEN /\ result'.Warnings = result.Warnings \o found
                        /\ result'.Errors = result.Errors
                   ELSE /\ result'.Errors = result.Errors \o found
                        /\ result'.Warnings = result.Warnings]_vars
    /\ [](pc = "reformat" => problemsLeft = {})
    /\ [](CompletedRun =>
            /\ SeqToBag(result.Warnings) =
                  SeqToBag(ConcatOver(dir.LogicalSchemas,
                                      LAMBDA ls : Findings(ls, "warning")))
            /\ SeqToBag(result.Errors) =
                  SeqToBag(ConcatOver(dir.LogicalSchemas,
                                      LAMBDA ls : ReportedStatementErrors(ls)
                                                  \o Findings(ls, "error"))))

\* two warning problems with findings, taken in the order no-pk, bad-charset
C10_Witness ==
    /\ pc = "done"
    /\ Len(dir.LogicalSchemas) = 1
    /\ dir.Config["warnings"] = "no-pk,bad-charset,bad-engine"
    /\ Len(result.Warnings) = 2
    /\ result.Warnings[1].Summary = "no-pk"
    /\ result.Warnings[2].Summary = "bad-charset"
    /\ result.Errors = <<>>

====
